---- MODULE Spec2Model ----
(***************************************************************************)
(* Model of face_detection.py: the module-level classifier load, the two   *)
(* operating modes chosen in the __main__ block, the streaming callback    *)
(* process_video, the shared detect_faces and the interactive loop main.   *)
(*                                                                         *)
(* A frame is a record: its buffer handle (id), its array shape (kind),    *)
(* its sample type (dtype), the channel order its data is in (order) and   *)
(* its pixels (px), one per cell of a small grid.  The cv2 calls are the   *)
(* program's environment: each one raises cv2.error when its argument is   *)
(* malformed for it, and may raise for a reason of its own (the `fault`    *)
(* arguments), which is why the program wraps them in try/except.          *)
(***************************************************************************)
EXTENDS Integers, Sequences, FiniteSets, TLC

VARIABLES pc, classifier, mode, launched, arg, call,
          capture, window, log, cur, processed, detectArg, lastFaces,
          shown, emptyRun, skipped, key, sourceDead

vars == <<pc, classifier, mode, launched, arg, call,
          capture, window, log, cur, processed, detectArg, lastFaces,
          shown, emptyRun, skipped, key, sourceDead>>

(* ------------------------------ bounds -------------------------------- *)
GridW == 3
GridH == 2
MaxFaces == 1
MaxLog == 3
MaxEmptyRun == 3

(* ---------------------------- frame values ---------------------------- *)
Cells == (0 .. GridW - 1) \X (0 .. GridH - 1)

Green == <<0, 255, 0>>

ColourA == <<10, 20, 30>>

ColourB == <<200, 100, 0>>

NoPx == [c \in {} |-> 0]

SamplePx ==
  { [c \in Cells |-> ColourA],
    [c \in Cells |-> ColourB],
    [c \in Cells |-> IF c[1] % 2 = 0 THEN ColourA ELSE Green] }

NoneFrame == [kind |-> "None", id |-> 0, dtype |-> "none", order |-> "none", px |-> NoPx]

Absent == [kind |-> "absent", id |-> 0, dtype |-> "none", order |-> "none", px |-> NoPx]

EmptyArray(o) == [kind |-> "empty", id |-> 1, dtype |-> "uint8", order |-> o, px |-> NoPx]

ColourFrame(o, t, p) == [kind |-> "hw3", id |-> 1, dtype |-> t, order |-> o, px |-> p]

PlaneFrame(o) ==
  [kind |-> "hw", id |-> 1, dtype |-> "uint8", order |-> o, px |-> [c \in Cells |-> 128]]

\* What a frame source can hand over, with its data in channel order o.
Frames(o) ==
  {NoneFrame, EmptyArray(o), PlaneFrame(o)}
    \cup {ColourFrame(o, "uint8", p) : p \in SamplePx}
    \cup {ColourFrame(o, "float32", [c \in Cells |-> ColourA])}

\* `frame is None or frame.size == 0`
IsEmpty(frame) == frame.kind = "None" \/ frame.kind = "empty"

WellFormed(frame) == frame.kind = "hw3" /\ frame.dtype = "uint8"

(* ------------------------------ detector ------------------------------ *)
\* Rectangles (x, y, w, h) the detector can report inside the frame.
Rects ==
  { r \in (0 .. GridW - 1) \X (0 .. GridH - 1) \X (1 .. GridW) \X (1 .. GridH) :
      r[1] + r[3] <= GridW /\ r[2] + r[4] <= GridH }

\* detectMultiScale reports zero or more rectangles; their order carries no
\* meaning and duplicates add nothing to the drawing, so a result is a set.
FaceSets ==
  UNION { { {s[i] : i \in 1 .. n} : s \in [1 .. n -> Rects] } : n \in 0 .. MaxFaces }

(* ------------------------------ cv2 calls ----------------------------- *)
Swap(p) == <<p[3], p[2], p[1]>>

Flip(o) == IF o = "RGB" THEN "BGR" ELSE IF o = "BGR" THEN "RGB" ELSE o

\* Luma of a pixel stored blue first.
Gray(p) == (114 * p[1] + 587 * p[2] + 299 * p[3]) \div 1000

Raised(src) == [raised |-> TRUE, out |-> src]

\* cv2.cvtColor(src, code) into a new buffer `id`.  COLOR_RGB2BGR and
\* COLOR_BGR2RGB both reverse the three channels; COLOR_BGR2GRAY collapses
\* them.  All three need a non-empty 3-channel source.
cvtColor(src, code, fault, id) ==
  IF fault \/ src.kind # "hw3"
    THEN Raised(src)
    ELSE IF code = "BGR2GRAY"
      THEN [raised |-> FALSE,
            out |-> [kind |-> "hw", id |-> id, dtype |-> src.dtype, order |-> "GRAY",
                     px |-> [c \in Cells |-> Gray(src.px[c])]]]
      ELSE [raised |-> FALSE,
            out |-> [kind |-> "hw3", id |-> id, dtype |-> src.dtype,
                     order |-> Flip(src.order),
                     px |-> [c \in Cells |-> Swap(src.px[c])]]]

\* face_classifier.detectMultiScale(gray, ...): needs an 8-bit plane.
detectMultiScale(gray, fault, faces) ==
  IF fault \/ gray.kind # "hw" \/ gray.dtype # "uint8"
    THEN [raised |-> TRUE, faces |-> {}]
    ELSE [raised |-> FALSE, faces |-> faces]

\* The cells on the outline of (x, y)-(x+w, y+h); cells outside the frame
\* are clipped.  The stroke is one cell wide.
Outline(r) ==
  { c \in Cells :
      /\ r[1] <= c[1] /\ c[1] <= r[1] + r[3]
      /\ r[2] <= c[2] /\ c[2] <= r[2] + r[4]
      /\ \/ c[1] = r[1] \/ c[1] = r[1] + r[3]
         \/ c[2] = r[2] \/ c[2] = r[2] + r[4] }

\* cv2.rectangle(frame, (x, y), (x + w, y + h), (0, 255, 0), 4), in place.
rectangle(px, r) == [c \in Cells |-> IF c \in Outline(r) THEN Green ELSE px[c]]

RECURSIVE DrawAll(_, _)
\* for (x, y, w, h) in faces: cv2.rectangle(...)
DrawAll(px, faces) ==
  IF faces = {} THEN px
  ELSE LET r == CHOOSE q \in faces : TRUE
       IN DrawAll(rectangle(px, r), faces \ {r})

\* detect_faces with `return gray_frame` in place of `return frame`.
detect_faces_gray(frame, fgray, fdet, faces) ==
  LET g == cvtColor(frame, "BGR2GRAY", fgray, frame.id + 100)
      d == detectMultiScale(g.out, fdet, faces)
  IN IF g.raised
       THEN [raised |-> TRUE, frame |-> frame, faces |-> {}, ncvt |-> 1, ndet |-> 0]
     ELSE IF d.raised
       THEN [raised |-> TRUE, frame |-> frame, faces |-> {}, ncvt |-> 1, ndet |-> 1]
     ELSE [raised |-> FALSE, frame |-> g.out, faces |-> d.faces,
           ncvt |-> 1, ndet |-> 1]

(* ---------------------------- detect_faces ---------------------------- *)
\* Returns the frame it was given (same handle), drawn on in place; an
\* exception of either cv2 call leaves the function (raised).
detect_faces(frame, fgray, fdet, faces) ==
  LET g == cvtColor(frame, "BGR2GRAY", fgray, frame.id + 100)
      d == detectMultiScale(g.out, fdet, faces)
  IN IF g.raised
       THEN [raised |-> TRUE, frame |-> frame, faces |-> {}, ncvt |-> 1, ndet |-> 0]
     ELSE IF d.raised
       THEN [raised |-> TRUE, frame |-> frame, faces |-> {}, ncvt |-> 1, ndet |-> 1]
     ELSE [raised |-> FALSE,
           frame |-> [frame EXCEPT !.px = DrawAll(frame.px, d.faces)],
           faces |-> d.faces, ncvt |-> 1, ndet |-> 1]

(* ---------------------------- process_video --------------------------- *)
Idle ==
  [outcome |-> "idle", line |-> 0, ret |-> Absent, log |-> <<>>,
   faces |-> {}, ncvt |-> 0, ndet |-> 0]

\* process_video without the empty-frame check of lines 63-65.
process_video_unchecked(frame, f1, fgray, fdet, faces, f2) ==
  LET a == cvtColor(frame, "RGB2BGR", f1, frame.id + 1)
      d == detect_faces(a.out, fgray, fdet, faces)
      b == cvtColor(d.frame, "BGR2RGB", f2, frame.id + 2)
  IN IF a.raised
       THEN [outcome |-> "returned", line |-> 72, ret |-> frame,
             log |-> <<"ERROR">>, faces |-> {}, ncvt |-> 1, ndet |-> 0]
     ELSE IF d.raised
       THEN [outcome |-> "raised", line |-> 74, ret |-> Absent,
             log |-> <<>>, faces |-> {}, ncvt |-> 1 + d.ncvt, ndet |-> d.ndet]
     ELSE IF b.raised
       THEN [outcome |-> "returned", line |-> 81, ret |-> d.frame,
             log |-> <<"ERROR">>, faces |-> d.faces,
             ncvt |-> 2 + d.ncvt, ndet |-> d.ndet]
     ELSE [outcome |-> "returned", line |-> 83, ret |-> b.out,
           log |-> <<>>, faces |-> d.faces, ncvt |-> 2 + d.ncvt, ndet |-> d.ndet]

\* process_video with `return processed_frame` in place of `return rgb_frame`
\* at line 83.
process_video_noback(frame, f1, fgray, fdet, faces, f2) ==
  LET a == cvtColor(frame, "RGB2BGR", f1, frame.id + 1)
      d == detect_faces(a.out, fgray, fdet, faces)
      b == cvtColor(d.frame, "BGR2RGB", f2, frame.id + 2)
  IN IF IsEmpty(frame)
       THEN [outcome |-> "returned", line |-> 65, ret |-> frame,
             log |-> <<"WARNING">>, faces |-> {}, ncvt |-> 0, ndet |-> 0]
     ELSE IF a.raised
       THEN [outcome |-> "returned", line |-> 72, ret |-> frame,
             log |-> <<"ERROR">>, faces |-> {}, ncvt |-> 1, ndet |-> 0]
     ELSE IF d.raised
       THEN [outcome |-> "raised", line |-> 74, ret |-> Absent,
             log |-> <<>>, faces |-> {}, ncvt |-> 1 + d.ncvt, ndet |-> d.ndet]
     ELSE IF b.raised
       THEN [outcome |-> "returned", line |-> 81, ret |-> d.frame,
             log |-> <<"ERROR">>, faces |-> d.faces,
             ncvt |-> 2 + d.ncvt, ndet |-> d.ndet]
     ELSE [outcome |-> "returned", line |-> 83, ret |-> d.frame,
           log |-> <<>>, faces |-> d.faces, ncvt |-> 2 + d.ncvt, ndet |-> d.ndet]

\* One invocation of the callback: how it ended (returned at a source line,
\* or raised), what it returned, what it logged, the detections it drew and
\* how many conversions and detector calls it made.
process_video(frame, f1, fgray, fdet, faces, f2) ==
  LET a == cvtColor(frame, "RGB2BGR", f1, frame.id + 1)
      d == detect_faces(a.out, fgray, fdet, faces)
      b == cvtColor(d.frame, "BGR2RGB", f2, frame.id + 2)
  IN IF IsEmpty(frame)
       THEN [outcome |-> "returned", line |-> 65, ret |-> frame,
             log |-> <<"WARNING">>, faces |-> {}, ncvt |-> 0, ndet |-> 0]
     ELSE IF a.raised
       THEN [outcome |-> "returned", line |-> 72, ret |-> frame,
             log |-> <<"ERROR">>, faces |-> {}, ncvt |-> 1, ndet |-> 0]
     ELSE IF d.raised
       THEN [outcome |-> "raised", line |-> 74, ret |-> Absent,
             log |-> <<>>, faces |-> {}, ncvt |-> 1 + d.ncvt, ndet |-> d.ndet]
     ELSE IF b.raised
       THEN [outcome |-> "returned", line |-> 81, ret |-> d.frame,
             log |-> <<"ERROR">>, faces |-> d.faces,
             ncvt |-> 2 + d.ncvt, ndet |-> d.ndet]
     ELSE [outcome |-> "returned", line |-> 83, ret |-> b.out,
           log |-> <<>>, faces |-> d.faces, ncvt |-> 2 + d.ncvt, ndet |-> d.ndet]

(* ------------------------------ logging ------------------------------- *)
\* The log keeps its first MaxLog records.
Logged(l, level) == IF Len(l) < MaxLog THEN Append(l, level) ELSE l

(* ------------------------------ keyboard ------------------------------ *)
OrdS == 115

NoKey == -1

\* What cv2.waitKey can return when 's' is waiting in the window's event
\* queue ('s', or 's' with the modifier bits some window backends set above
\* the low byte) and when it is not (nothing pressed, or 'q').
KeyCodes(sWaiting) == IF sWaiting THEN {OrdS, 1048576 + OrdS} ELSE {NoKey, 113}

\* cv2.waitKey(1) & 0xFF == ord('s')
IsExitKey(k) == k % 256 = OrdS

(* ------------------------------- reads -------------------------------- *)
NoRead == [success |-> FALSE, frame |-> Absent]

FailedRead == [success |-> FALSE, frame |-> NoneFrame]

\* What video_capture.read() can return: the device delivers BGR frames.
ReadResults ==
  {FailedRead} \cup [success : {TRUE}, frame : Frames("BGR")]

\* `not success or frame is None or frame.size == 0`
IsEmptyRead(r) == ~r.success \/ IsEmpty(r.frame)

(* ------------------------------- state -------------------------------- *)
Init ==
  /\ pc = "import"
  /\ classifier = "unloaded"
  /\ mode = "none"
  /\ launched = FALSE
  /\ arg = Absent
  /\ call = Idle
  /\ capture = "none"
  /\ window = "none"
  /\ log = <<>>
  /\ cur = NoRead
  /\ processed = Absent
  /\ detectArg = Absent
  /\ lastFaces = {}
  /\ shown = Absent
  /\ emptyRun = 0
  /\ skipped = 0
  /\ key = FALSE
  /\ sourceDead = FALSE

StreamVars == <<launched, arg, call>>

LoopVars == <<capture, window, log, cur, processed, detectArg, lastFaces,
              shown, emptyRun, skipped>>

EnvVars == <<key, sourceDead>>

(* --------------------------- module start-up -------------------------- *)
\* The load without the `if face_classifier.empty(): raise` of lines 15-16.
LoadClassifierUnchecked ==
  /\ pc = "import"
  /\ \E empty \in BOOLEAN : classifier' = IF empty THEN "empty" ELSE "loaded"
  /\ pc' = "args"
  /\ UNCHANGED <<mode, StreamVars, LoopVars, EnvVars>>

\* Lines 14-16: the cascade is loaded at import; an empty classifier raises
\* RuntimeError there, before the __main__ block is reached.
LoadClassifier ==
  /\ pc = "import"
  /\ \E empty \in BOOLEAN :
       /\ classifier' = IF empty THEN "empty" ELSE "loaded"
       /\ pc' = IF empty THEN "fatal" ELSE "args"
  /\ UNCHANGED <<mode, StreamVars, LoopVars, EnvVars>>

\* Lines 149-170: --gradio selects launch_gradio, otherwise main.
ParseArgs ==
  /\ pc = "args"
  /\ \E gradio \in BOOLEAN :
       /\ mode' = IF gradio THEN "gradio" ELSE "interactive"
       /\ pc' = IF gradio THEN "launch" ELSE "main"
  /\ UNCHANGED <<classifier, StreamVars, LoopVars, EnvVars>>

(* --------------------------- streaming mode --------------------------- *)
\* launch_gradio: registers process_video and serves.
launch_gradio ==
  /\ pc = "launch"
  /\ launched' = TRUE
  /\ pc' = "serving"
  /\ UNCHANGED <<classifier, mode, arg, call, LoopVars, EnvVars>>

\* The UI runtime calls process_video with one frame (RGB).
Callback ==
  /\ pc = "serving"
  /\ call = Idle
  /\ \E frame \in Frames("RGB"), f1 \in BOOLEAN, fgray \in BOOLEAN,
        fdet \in BOOLEAN, faces \in FaceSets, f2 \in BOOLEAN :
       /\ arg' = frame
       /\ call' = process_video(frame, f1, fgray, fdet, faces, f2)
  /\ UNCHANGED <<pc, classifier, mode, launched, LoopVars, EnvVars>>

\* The UI runtime takes the result (or the exception) and is ready for the
\* next frame.
CallbackDone ==
  /\ pc = "serving"
  /\ call # Idle
  /\ call' = Idle
  /\ arg' = Absent
  /\ UNCHANGED <<pc, classifier, mode, launched, LoopVars, EnvVars>>

(* --------------------------- interactive mode ------------------------- *)
\* Line 117: cv2.VideoCapture(video_source); the device opens or does not.
OpenCapture ==
  /\ pc = "main"
  /\ \E ok \in BOOLEAN : capture' = IF ok THEN "open" ELSE "closed"
  /\ pc' = "isOpened"
  /\ UNCHANGED <<classifier, mode, StreamVars, window, log, cur, processed,
                 detectArg, lastFaces, shown, emptyRun, skipped, EnvVars>>

\* Lines 119-123 without the `return` of line 121.
CheckOpenedNoReturn ==
  /\ pc = "isOpened"
  /\ IF capture # "open"
       THEN log' = Logged(Logged(log, "ERROR"), "INFO") /\ pc' = "read"
       ELSE log' = Logged(log, "INFO") /\ pc' = "read"
  /\ UNCHANGED <<classifier, mode, StreamVars, capture, window, cur, processed,
                 detectArg, lastFaces, shown, emptyRun, skipped, EnvVars>>

\* Lines 119-123.
CheckOpened ==
  /\ pc = "isOpened"
  /\ IF capture # "open"
       THEN log' = Logged(log, "ERROR") /\ pc' = "done"
       ELSE log' = Logged(log, "INFO") /\ pc' = "read"
  /\ UNCHANGED <<classifier, mode, StreamVars, capture, window, cur, processed,
                 detectArg, lastFaces, shown, emptyRun, skipped, EnvVars>>

\* Line 126: a source that has ended only ever fails.  What the previous
\* iteration left behind is dead by now (processed_frame is assigned again
\* before any use), so the per-iteration records start afresh.
Read ==
  /\ pc = "read"
  /\ \E r \in ReadResults :
       /\ sourceDead => r = FailedRead
       /\ cur' = r
  /\ processed' = Absent
  /\ detectArg' = Absent
  /\ lastFaces' = {}
  /\ shown' = Absent
  /\ skipped' = 0
  /\ pc' = "check"
  /\ UNCHANGED <<classifier, mode, StreamVars, capture, window, log, emptyRun,
                 EnvVars>>

\* Lines 129-131 with `break` in place of `continue`.
CheckFrameBreaks ==
  /\ pc = "check"
  /\ IF IsEmptyRead(cur)
       THEN /\ log' = Logged(log, "WARNING")
            /\ emptyRun' = IF emptyRun < MaxEmptyRun THEN emptyRun + 1 ELSE emptyRun
            /\ pc' = "release"
            /\ UNCHANGED skipped
       ELSE /\ skipped' = emptyRun
            /\ emptyRun' = 0
            /\ pc' = "detect"
            /\ UNCHANGED log
  /\ UNCHANGED <<classifier, mode, StreamVars, capture, window, cur, processed,
                 detectArg, lastFaces, shown, EnvVars>>

\* Lines 129-131: an empty read is logged and the loop goes back to read.
CheckFrame ==
  /\ pc = "check"
  /\ IF IsEmptyRead(cur)
       THEN /\ log' = Logged(log, "WARNING")
            /\ emptyRun' = IF emptyRun < MaxEmptyRun THEN emptyRun + 1 ELSE emptyRun
            /\ pc' = "read"
            /\ UNCHANGED skipped
       ELSE /\ skipped' = emptyRun
            /\ emptyRun' = 0
            /\ pc' = "detect"
            /\ UNCHANGED log
  /\ UNCHANGED <<classifier, mode, StreamVars, capture, window, cur, processed,
                 detectArg, lastFaces, shown, EnvVars>>

\* Line 134: detect_faces(frame), not guarded: an exception ends main.  The
\* frame is drawn on in place, so `frame` and `processed_frame` are one buffer.
Detect ==
  /\ pc = "detect"
  /\ \E fgray \in BOOLEAN, fdet \in BOOLEAN, faces \in FaceSets :
       LET d == detect_faces(cur.frame, fgray, fdet, faces)
       IN /\ detectArg' = cur.frame
          /\ lastFaces' = d.faces
          /\ IF d.raised
               THEN pc' = "crashed" /\ UNCHANGED <<cur, processed>>
               ELSE /\ pc' = "show"
                    /\ processed' = d.frame
                    /\ cur' = [cur EXCEPT !.frame = d.frame]
  /\ UNCHANGED <<classifier, mode, StreamVars, capture, window, log, shown,
                 emptyRun, skipped, EnvVars>>

\* Line 137: cv2.imshow creates the window on first use.
Show ==
  /\ pc = "show"
  /\ window' = "open"
  /\ shown' = processed
  /\ pc' = "waitkey"
  /\ UNCHANGED <<classifier, mode, StreamVars, capture, log, cur, processed,
                 detectArg, lastFaces, emptyRun, skipped, EnvVars>>

\* Lines 140-142: cv2.waitKey(1) takes what the event queue holds; 's'
\* leaves the loop.
WaitKey ==
  /\ pc = "waitkey"
  /\ key' = FALSE
  /\ \E k \in KeyCodes(key) :
       IF IsExitKey(k)
         THEN log' = Logged(log, "INFO") /\ pc' = "release"
         ELSE pc' = "read" /\ UNCHANGED log
  /\ UNCHANGED <<classifier, mode, StreamVars, capture, window, cur, processed,
                 detectArg, lastFaces, shown, emptyRun, skipped, sourceDead>>

\* Lines 145-146, and main returns: its locals are gone.
Release ==
  /\ pc = "release"
  /\ capture' = "released"
  /\ window' = "destroyed"
  /\ cur' = NoRead
  /\ processed' = Absent
  /\ detectArg' = Absent
  /\ lastFaces' = {}
  /\ shown' = Absent
  /\ pc' = "done"
  /\ UNCHANGED <<classifier, mode, StreamVars, log, emptyRun, skipped, EnvVars>>

(* ----------------------------- environment ---------------------------- *)
InLoop == pc \in {"read", "check", "detect", "show", "waitkey"}

\* The user presses 's' while the loop runs; the key waits in the event
\* queue until cv2.waitKey takes it.
PressKey ==
  /\ InLoop
  /\ ~key
  /\ key' = TRUE
  /\ UNCHANGED <<pc, classifier, mode, StreamVars, LoopVars, sourceDead>>

\* The video source ends: every later read fails.
SourceEnds ==
  /\ InLoop
  /\ ~sourceDead
  /\ sourceDead' = TRUE
  /\ UNCHANGED <<pc, classifier, mode, StreamVars, LoopVars, key>>

(* --------------------------- specifications --------------------------- *)
Program ==
  \/ LoadClassifier
  \/ ParseArgs
  \/ launch_gradio
  \/ Callback
  \/ CallbackDone
  \/ OpenCapture
  \/ CheckOpened
  \/ Read
  \/ CheckFrame
  \/ Detect
  \/ Show
  \/ WaitKey
  \/ Release

Next == Program \/ PressKey \/ SourceEnds

Spec == Init /\ [][Next]_vars

\* The program is one thread that runs whenever it can take a step.
FairSpec == Spec /\ WF_vars(Program)

(* ------------------------------- claims ------------------------------- *)
MainExited == pc \in {"done", "crashed"}

\* C1: every invocation of process_video returns a frame; none ends with an
\* exception leaving the callback.
C1_NeverRaises == call.outcome # "raised"

\* C2: interactive mode terminates once the source has stopped yielding
\* frames, and a pressed exit key is acted on even then.
C2_Terminates ==
  /\ sourceDead ~> MainExited
  /\ (sourceDead /\ key) ~> (~key)

\* C3: whenever main has ended, by return or by an exception, the capture
\* device is no longer held open and no display window is left open.
C3_ReleasedOnExit == MainExited => (capture # "open" /\ window # "open")

\* C4: an empty read sends the loop back to read, with nothing passed to
\* detect_faces or displayed and the device kept; a non-empty read is what
\* detect_faces is called with, and what detect_faces returns is displayed;
\* no empty frame is ever the argument of detect_faces or of imshow.
C4_EmptyReadsSkipped ==
  [][ /\ (pc = "check" /\ IsEmptyRead(cur)) =>
           /\ pc' \in {"check", "read"}
           /\ detectArg' = Absent /\ shown' = Absent /\ processed' = Absent
           /\ capture' = "open"
      /\ (pc = "check" /\ ~IsEmptyRead(cur)) =>
           (pc' \in {"check", "detect"} /\ cur' = cur)
      /\ (pc = "detect" /\ pc' # "detect") =>
           (detectArg' = cur.frame /\ pc' \in {"show", "crashed"})
      /\ (pc = "show" /\ pc' # "show") =>
           (pc' = "waitkey" /\ shown' = processed /\ shown'.id = detectArg.id)
      /\ ~IsEmpty(detectArg') /\ ~IsEmpty(shown')
    ]_vars

\* C4 witness: three empty reads were skipped and the frame after them is on
\* display.
C4_Witness ==
  /\ pc = "waitkey" /\ skipped >= 3
  /\ WellFormed(shown) /\ shown.id = detectArg.id

\* C5: called with None or a zero-size array, process_video returns that
\* value, logs one warning and nothing else, and calls neither cvtColor nor
\* the detector.
C5_EmptyFramePassthrough ==
  (call # Idle /\ IsEmpty(arg)) =>
    /\ call.outcome = "returned" /\ call.ret = arg
    /\ call.log = <<"WARNING">>
    /\ call.ncvt = 0 /\ call.ndet = 0

C5_Witness == call # Idle /\ arg.kind = "empty" /\ call.ret = arg

\* C6: whatever process_video returns for a non-empty RGB frame is in RGB
\* order, on every return path.
C6_ReturnsOrderA ==
  (call.outcome = "returned" /\ ~IsEmpty(arg)) => call.ret.order = arg.order

\* C7: when the device does not open, main logs one error and returns; it
\* reads no frame, calls detect_faces on nothing and shows no window.
C7_OpenFailure ==
  capture = "closed" =>
    /\ pc \in {"isOpened", "done"}
    /\ log = IF pc = "done" THEN <<"ERROR">> ELSE <<>>
    /\ cur = NoRead /\ detectArg = Absent /\ shown = Absent /\ window = "none"

C7_Witness == capture = "closed" /\ pc = "done" /\ log = <<"ERROR">>

\* C8: when the detector reports no rectangle, detect_faces returns the
\* buffer it was given with every pixel as it was.
C8_EmptyDetections ==
  (pc = "show" /\ lastFaces = {}) => (processed = detectArg /\ cur.frame = detectArg)

C8_Witness == pc = "show" /\ lastFaces = {} /\ WellFormed(processed)

\* C9: a frame that went RGB -> BGR -> RGB through process_video comes back
\* with its shape, sample type and channel order, and, when nothing was
\* detected, with every pixel equal to the input's.
C9_RoundTrip ==
  (call.outcome = "returned" /\ call.line = 83) =>
    /\ call.ret.kind = arg.kind /\ call.ret.dtype = arg.dtype
    /\ call.ret.order = arg.order
    /\ call.faces = {} => call.ret.px = arg.px

C9_Witness ==
  /\ call.line = 83 /\ call.faces = {}
  /\ arg.px = [c \in Cells |-> ColourA] /\ call.ret.px = arg.px

\* C10: with an empty classifier the program stops at import: no mode is
\* chosen, no device opened, no frame read, no interface launched, no
\* callback served.
C10_FailFast ==
  classifier = "empty" =>
    /\ pc = "fatal" /\ mode = "none" /\ ~launched
    /\ capture = "none" /\ cur = NoRead /\ call = Idle

C10_Witness == pc = "fatal" /\ classifier = "empty"

====
